---- MODULE Spec2Model ----
(***************************************************************************)
(* Model of notify/render_email.py: the anomaly-record canonicalization    *)
(* and report pipeline (pick_col, coerce_time, parse_flag_generic,         *)
(* derive_detector_flags, to_canonical, main), and of crawl_data.py: the   *)
(* monthly CSV files the crawler appends to (save_to_csv,                  *)
(* crawl_all_cities).                                                      *)
(*                                                                         *)
(* Representation.                                                         *)
(*  - A Python str is a sequence of one-character strings, so lower(),     *)
(*    strip(), "in" (substring), endswith() and ", ".join are computed     *)
(*    character by character.  The alphabet is Latin-1.                    *)
(*  - A table cell is a record [k, n, s, z]:                               *)
(*      k = "num"    an integer, n its value                               *)
(*      k = "float"  the float n / 10^z (never the negative zero)          *)
(*      k = "bool"   a boolean, n = 1 for True and 0 for False             *)
(*      k = "str"    a string, s its characters                            *)
(*      k = "nan"    NaN                                                   *)
(*      k = "none"   Python None                                           *)
(*      k = "tnaive" the timestamp string "2025-01-01 HH:00", n = HH       *)
(*      k = "taware" the timestamp string "2025-01-01THH:00:00+ZZ:00",     *)
(*                   n = HH, z = ZZ (its UTC offset in hours)              *)
(*  - An instant is [t, ns]: t whole hours on the UTC axis counted from    *)
(*    2025-01-01 00:00 UTC, plus ns nanoseconds, a few seconds at most     *)
(*    either way.  An offset is a number of hours.  A zone is named by     *)
(*    the offset it has in 2025: 7 is Asia/Ho_Chi_Minh, 0 is UTC; the      *)
(*    offset a zone has at an instant is OffsetAtUtc / OffsetAtWall.  In   *)
(*    a time column the texts other than the two timestamp forms are       *)
(*    texts pandas cannot parse.                                           *)
(*  - A DataFrame is [columns |-> sequence of labels, rows |-> sequence of *)
(*    rows], a row being a sequence of cells aligned with columns.         *)
(***************************************************************************)
EXTENDS Integers, Sequences, FiniteSets, TLC

VARIABLES
    cfg,      \* [pandas, INPUT_TZ, LOCAL_TZ]: the build and the environment
    fn,       \* pure-function runs: which function is applied
    arg,      \* pure-function runs: its input
    ret,      \* pure-function runs: its result, NotRun before the call
    pc,       \* main(): position
    changed,  \* main(): the lines of CHANGED_FILES (undecoded list)
    scan,     \* main(): what glob("result_anomaly/**/*") lists
    paths,    \* main(): paths
    idx,      \* main(): index of the next path of the for loop
    frames,   \* main(): frames
    big,      \* main(): big
    latest,   \* main(): latest
    out_file, \* the content of OUT_PATH: a sequence of table rows, or Absent
    writes,   \* number of OUT_PATH.write_text calls so far
    now,      \* crawler: the clock, in months since January 2025
    disk,     \* crawler: the files under data/, by path
    saved,    \* crawler: history of the save_to_csv calls made so far
    ci,       \* crawl_all_cities(): index into CITIES, 0 when not running
    runs,     \* crawler: number of crawl_all_cities() runs started
    results,  \* crawl_all_cities(): results
    data      \* crawl_all_cities(): data of the city at hand, <<>> before
              \* crawl_city_data returns

vars == <<cfg, fn, arg, ret, pc, changed, scan, paths, idx, frames, big, latest,
          out_file, writes, now, disk, saved, ci, runs, results, data>>

crawlVars == <<now, disk, saved, ci, runs, results, data>>

\* the crawler has not run
IdleCrawl ==
    /\ now = 0 /\ disk = <<>> /\ saved = <<>> /\ ci = 0 /\ runs = 0
    /\ results = <<>> /\ data = <<>>

----------------------------------------------------------------------------
(* Strings *)

\* The cased characters of Latin-1, the alphabet of the modelled strings:
\* A-Z and the accented capitals, each with its lower-case form.
UPPER == <<"A","B","C","D","E","F","G","H","I","J","K","L","M",
           "N","O","P","Q","R","S","T","U","V","W","X","Y","Z",
           "À","Á","Â","Ã","Ä","Å","Æ","Ç","È","É","Ê","Ë","Ì",
           "Í","Î","Ï","Ð","Ñ","Ò","Ó","Ô","Õ","Ö","Ø","Ù","Ú",
           "Û","Ü","Ý","Þ">>
LOWER == <<"a","b","c","d","e","f","g","h","i","j","k","l","m",
           "n","o","p","q","r","s","t","u","v","w","x","y","z",
           "à","á","â","ã","ä","å","æ","ç","è","é","ê","ë","ì",
           "í","î","ï","ð","ñ","ò","ó","ô","õ","ö","ø","ù","ú",
           "û","ü","ý","þ">>

\* the characters str.lower() changes
Cased == {UPPER[i] : i \in DOMAIN UPPER}

\* str.lower() on one character
lower_ch(c) ==
    IF c \in Cased
    THEN LOWER[CHOOSE i \in DOMAIN UPPER : UPPER[i] = c]
    ELSE c

\* str.lower()
lower(s) == IF s = <<>> THEN <<>> ELSE [i \in 1..Len(s) |-> lower_ch(s[i])]

\* Python's  sub in s  on strings
contains(sub, s) ==
    \E i \in 0..(Len(s) - Len(sub)) : SubSeq(s, i + 1, i + Len(sub)) = sub

\* str.endswith(suffix)
endswith(s, suffix) ==
    /\ Len(suffix) <= Len(s)
    /\ SubSeq(s, Len(s) - Len(suffix) + 1, Len(s)) = suffix

\* The characters str.isspace() accepts, within Latin-1: tab, newline,
\* vertical tab, form feed, carriage return, the separators 0x1C-0x1F,
\* space, next-line (0x85) and the no-break space (0xA0).
WHITESPACE == {"\t", "\n", "", "\f", "\r", "", "", "", "", " ", "", " "}

RECURSIVE lstrip(_)
\* str.lstrip()
lstrip(s) == IF s # <<>> /\ Head(s) \in WHITESPACE THEN lstrip(Tail(s)) ELSE s

RECURSIVE rstrip(_)
\* str.rstrip()
rstrip(s) ==
    IF s # <<>> /\ s[Len(s)] \in WHITESPACE
    THEN rstrip(SubSeq(s, 1, Len(s) - 1))
    ELSE s

\* str.strip()
strip(s) == rstrip(lstrip(s))

\* The characters the number parser of pd.to_numeric skips before and
\* after a numeral: the ASCII blanks only.
BLANKS == {" ", "\t", "\n", "", "\f", "\r"}

RECURSIVE SkipBlanks(_)
\* the string without its leading and trailing ASCII blanks
SkipBlanks(s) ==
    IF s # <<>> /\ Head(s) \in BLANKS THEN SkipBlanks(Tail(s))
    ELSE IF s # <<>> /\ s[Len(s)] \in BLANKS
    THEN SkipBlanks(SubSeq(s, 1, Len(s) - 1))
    ELSE s

DIGITS == <<"0","1","2","3","4","5","6","7","8","9">>

IsDigit(c) == c \in {"0","1","2","3","4","5","6","7","8","9"}

DigitVal(c) == (CHOOSE i \in DOMAIN DIGITS : DIGITS[i] = c) - 1

RECURSIVE DigitsVal(_)
DigitsVal(s) ==
    IF s = <<>> THEN 0
    ELSE 10 * DigitsVal(SubSeq(s, 1, Len(s) - 1)) + DigitVal(s[Len(s)])

AllDigits(s) == s # <<>> /\ \A i \in 1..Len(s) : IsDigit(s[i])

RECURSIVE NatStr(_)
NatStr(n) ==
    IF n < 10 THEN <<DIGITS[n + 1]>>
    ELSE NatStr(n \div 10) \o <<DIGITS[(n % 10) + 1]>>

\* str(n) of an integer
IntStr(n) == IF n < 0 THEN <<"-">> \o NatStr(0 - n) ELSE NatStr(n)

s_city == <<"c","i","t","y">>
s_time == <<"t","i","m","e">>
s_timestamp == <<"t","i","m","e","s","t","a","m","p">>
s_aqi == <<"a","q","i">>
s_wind == <<"w","i","n","d">>
s_is_anomaly == <<"i","s","_","a","n","o","m","a","l","y">>
s_anomaly == <<"a","n","o","m","a","l","y">>
s_method == <<"m","e","t","h","o","d">>
s_location == <<"l","o","c","a","t","i","o","n">>
s_zscore_flag_aqi == <<"z","s","c","o","r","e","_","f","l","a","g","_","a","q","i">>
s_zscore_flag_wind == <<"z","s","c","o","r","e","_","f","l","a","g","_","w","i","n","d">>
s___source == <<"_","_","s","o","u","r","c","e">>
s_nan == <<"n","a","n">>
s_True == <<"T","r","u","e">>
s_False == <<"F","a","l","s","e">>
s_None == <<"N","o","n","e">>
s_true == <<"t","r","u","e">>
s_yes == <<"y","e","s">>
s_outlier == <<"o","u","t","l","i","e","r">>

----------------------------------------------------------------------------
(* Configuration *)

ALIASES ==
    [ city   |-> << s_city,
                    <<"t","h","a","n","h","_","p","h","o">>,
                    <<"t","i","n","h">>,
                    <<"p","r","o","v","i","n","c","e">>,
                    s_location >>,
      time   |-> << s_time, s_timestamp,
                    <<"d","a","t","e","t","i","m","e">>,
                    <<"d","a","t","e">> >>,
      aqi    |-> << s_aqi, <<"A","Q","I">>,
                    <<"a","q","i","_","v","a","l","u","e">> >>,
      wind   |-> << s_wind,
                    <<"w","i","n","d","_","s","p","e","e","d">>,
                    <<"w","i","n","d","s","p","e","e","d">>,
                    <<"g","i","o">>, <<"g","i","ó">> >>,
      flag   |-> << <<"f","l","a","g">>, s_is_anomaly, s_anomaly,
                    <<"i","s","_","o","u","t","l","i","e","r">>,
                    <<"l","a","b","e","l">> >>,
      method |-> << s_method, <<"a","l","g","o">>,
                    <<"a","l","g","o","r","i","t","h","m">>,
                    <<"d","e","t","e","c","t","o","r">>,
                    <<"s","o","u","r","c","e">> >> ]

\* (label, column) in the order Z_FLAG_COLS.items() iterates
Z_FLAG_COLS ==
    << << <<"Z","-","s","c","o","r","e"," ","A","Q","I">>, s_zscore_flag_aqi >>,
       << <<"Z","-","s","c","o","r","e"," ","W","i","n","d">>, s_zscore_flag_wind >> >>

IF_FLAG_COL ==
    << <<"I","s","o","l","a","t","i","o","n","F","o","r","e","s","t">>, s_anomaly >>

----------------------------------------------------------------------------
(* pick_col *)

\* Python None, and the marker of a raised exception
None == <<"<None>">>
Raised == <<"<raised>">>

\* A column label that is not a str: pd.DataFrame(list of scalars) labels its
\* column with the integer 0.  Such a label has no .lower().
IntLabel(i) == <<"<int>">> \o NatStr(i)
IsStr(c) == c = <<>> \/ c[1] # "<int>"

\* cols = {c.lower(): c for c in df.columns}: a later column overwrites an
\* earlier one with the same lower-cased name.
ColsLookup(columns, key) ==
    LET hits == {i \in 1..Len(columns) : lower(columns[i]) = key}
    IN  IF hits = {} THEN None
        ELSE columns[CHOOSE i \in hits : \A j \in hits : j <= i]

\* for n in names: exact match, then case-insensitive match, of that alias
RECURSIVE PickLoop1(_, _, _)
PickLoop1(columns, names, k) ==
    IF k > Len(names) THEN None
    ELSE IF \E i \in 1..Len(columns) : columns[i] = names[k] THEN names[k]
    ELSE IF ColsLookup(columns, lower(names[k])) # None
         THEN ColsLookup(columns, lower(names[k]))
    ELSE PickLoop1(columns, names, k + 1)

\* for c in df.columns: any alias a case-insensitive substring of c
PickLoop2(columns, names) ==
    LET hits == {i \in 1..Len(columns) :
                    \E k \in 1..Len(names) :
                        contains(lower(names[k]), lower(columns[i]))}
    IN  IF hits = {} THEN None
        ELSE columns[CHOOSE i \in hits : \A j \in hits : i <= j]

pick_col(columns, names) ==
    IF \E i \in 1..Len(columns) : ~IsStr(columns[i]) THEN Raised
    ELSE IF PickLoop1(columns, names, 1) # None THEN PickLoop1(columns, names, 1)
    ELSE PickLoop2(columns, names)

----------------------------------------------------------------------------
(* Cells and element conversions *)

\* Cells.  A "num" cell is an integer (int64 column or a Python int in an
\* object column), a "float" cell the float n / 10^z, "nan" is NaN and
\* "none" is Python None (a JSON null in a column of text).
Num(n)       == [k |-> "num",    n |-> n, s |-> <<>>, z |-> 0]
Float(n, d)  == [k |-> "float",  n |-> n, s |-> <<>>, z |-> d]
Bool(b)      == [k |-> "bool",   n |-> IF b THEN 1 ELSE 0, s |-> <<>>, z |-> 0]
Str(s)       == [k |-> "str",    n |-> 0, s |-> s,    z |-> 0]
NaN          == [k |-> "nan",    n |-> 0, s |-> <<>>, z |-> 0]
NoneCell     == [k |-> "none",   n |-> 0, s |-> <<>>, z |-> 0]
TNaive(w)    == [k |-> "tnaive", n |-> w, s |-> <<>>, z |-> 0]
TAware(w, z) == [k |-> "taware", n |-> w, s |-> <<>>, z |-> z]

RECURSIVE Pow10(_)
Pow10(k) == IF k = 0 THEN 1 ELSE 10 * Pow10(k - 1)

RECURSIVE PadZeros(_, _)
\* s.rjust(w, "0")
PadZeros(s, w) == IF Len(s) >= w THEN s ELSE PadZeros(<<"0">> \o s, w)

\* A float64 value: NaN, an infinity (n is its sign), or the decimal
\* n / 10^d written with the fewest decimals d; negzero marks the zero
\* with the sign bit set (-0.0).  The values of the model are short
\* decimals, far inside the range and precision of a float64.
RECURSIVE Dec(_, _)
Dec(n, d) ==
    IF d > 0 /\ n % 10 = 0 THEN Dec(n \div 10, d - 1)
    ELSE [nan |-> FALSE, inf |-> FALSE, n |-> n, d |-> d, negzero |-> FALSE]

Val(n)  == Dec(n, 0)
NoVal  == [nan |-> TRUE,  inf |-> FALSE, n |-> 0, d |-> 0, negzero |-> FALSE]
Inf(sign) == [nan |-> FALSE, inf |-> TRUE, n |-> sign, d |-> 0, negzero |-> FALSE]
NegZero == [nan |-> FALSE, inf |-> FALSE, n |-> 0, d |-> 0, negzero |-> TRUE]

\* the index of the first ch of s, Len(s) + 1 when s has none
FirstAt(s, ch) ==
    CHOOSE i \in 1..(Len(s) + 1) :
        /\ i = Len(s) + 1 \/ s[i] = ch
        /\ \A j \in 1..(i - 1) : s[j] # ch

\* the mantissa with integer part ip and fraction fp: at least one digit,
\* and digits only
Mantissa(ip, fp) ==
    IF AllDigits(ip \o fp)
    THEN [ok |-> TRUE,  mag |-> DigitsVal(ip \o fp), d |-> Len(fp)]
    ELSE [ok |-> FALSE, mag |-> 0, d |-> 0]

MantissaAt(m, dot) == Mantissa(SubSeq(m, 1, dot - 1), SubSeq(m, dot + 1, Len(m)))

\* the exponent with digits xd after its optional sign
ExpDigits(xd, xneg) ==
    IF AllDigits(xd)
    THEN [ok |-> TRUE,  e |-> IF xneg THEN 0 - DigitsVal(xd) ELSE DigitsVal(xd)]
    ELSE [ok |-> FALSE, e |-> 0]

\* the exponent x that follows the "e", when there is an "e"
Exponent(x, has) ==
    IF ~has THEN [ok |-> TRUE, e |-> 0]
    ELSE ExpDigits(IF x # <<>> /\ x[1] \in {"-", "+"} THEN Tail(x) ELSE x,
                   x # <<>> /\ x[1] = "-")

\* mantissa mag / 10^d times 10^e
Scale(mt, ex) ==
    IF ~(mt.ok /\ ex.ok) THEN NoVal
    ELSE IF mt.d >= ex.e THEN Dec(mt.mag, mt.d - ex.e)
    ELSE Dec(mt.mag * Pow10(ex.e - mt.d), 0)

ParseExp(u, ePos) ==
    Scale(MantissaAt(SubSeq(u, 1, ePos - 1), FirstAt(SubSeq(u, 1, ePos - 1), ".")),
          Exponent(SubSeq(u, ePos + 1, Len(u)), ePos <= Len(u)))

Signed(v, neg) ==
    IF v.nan \/ ~neg THEN v
    ELSE IF v.n = 0 THEN NegZero
    ELSE Dec(0 - v.n, v.d)

\* a numeral after its sign
ParseUnsigned(u, neg) == Signed(ParseExp(u, FirstAt(u, "e")), neg)

\* a numeral without the blanks around it
ParseStripped(t) ==
    ParseUnsigned(lower(IF t # <<>> /\ t[1] \in {"-", "+"} THEN Tail(t) ELSE t),
                  t # <<>> /\ t[1] = "-")

\* the whole string, in any case, names an infinity
ParseInf(u, t) ==
    IF u \in {<<"i","n","f">>, <<"i","n","f","i","n","i","t","y">>}
    THEN Inf(IF t[1] = "-" THEN -1 ELSE 1)
    ELSE NoVal

\* The number a string spells for pd.to_numeric: ASCII blanks around an
\* optional sign and digits with at most one "." (at least one digit) and
\* an optional exponent e[sign]digits; failing that, the whole string is
\* [sign]inf or [sign]infinity in any case.  Anything else, "nan" and the
\* empty string included, is NaN.
ParseNum(s) ==
    IF ~ParseStripped(SkipBlanks(s)).nan THEN ParseStripped(SkipBlanks(s))
    ELSE ParseInf(lower(IF s # <<>> /\ s[1] \in {"-", "+"} THEN Tail(s) ELSE s), s)

\* pd.to_numeric(series, errors="coerce"), element by element: a boolean is
\* the number 1 or 0, a string is the number it spells or NaN
to_numeric(v) ==
    CASE v.k = "num"   -> Val(v.n)
      [] v.k = "float" -> Dec(v.n, v.z)
      [] v.k = "bool"  -> Val(v.n)
      [] v.k = "str"   -> ParseNum(v.s)
      [] OTHER         -> NoVal

\* an element pd.to_numeric counts as an integer: a whole number, a boolean,
\* or a text that spells a number without "." and without an exponent
IsInteger(v) ==
    \/ v.k \in {"num", "bool"}
    \/ /\ v.k = "str"
       /\ ~ParseStripped(SkipBlanks(v.s)).nan
       /\ \A i \in DOMAIN v.s : v.s[i] \notin {".", "e", "E"}

\* element i of pd.to_numeric(series, errors="coerce"): a column of
\* integers only is int64, which has no negative zero
to_numeric_at(series, i) ==
    IF to_numeric(series[i]).negzero /\ \A j \in DOMAIN series : IsInteger(series[j])
    THEN Val(0)
    ELSE to_numeric(series[i])

RECURSIVE Significand(_)
\* the digits of n > 0 without its trailing zeros
Significand(n) == IF n % 10 = 0 THEN Significand(n \div 10) ELSE NatStr(n)

\* digits d1 d2 ... and exponent e as d1.d2...e+XX, the exponent with at
\* least two digits
ExpStr(sig, e) ==
    <<Head(sig)>> \o (IF Len(sig) > 1 THEN <<".">> \o Tail(sig) ELSE <<>>)
        \o <<"e">> \o (IF e < 0 THEN <<"-">> ELSE <<"+">>)
        \o PadZeros(NatStr(IF e < 0 THEN 0 - e ELSE e), 2)

RECURSIVE FloatStr(_, _)
\* str(x) of the float n / 10^d, d the fewest decimals.  With the value
\* written 0.d1d2... * 10^p, str() writes positionally, with at least one
\* decimal, when -4 < p <= 16, and in exponent notation otherwise.
FloatStr(n, d) ==
    IF n < 0 THEN <<"-">> \o FloatStr(0 - n, d)
    ELSE IF n = 0 THEN <<"0", ".", "0">>
    ELSE IF Len(NatStr(n)) - d <= 0 - 4 \/ Len(NatStr(n)) - d > 16
    THEN ExpStr(Significand(n), Len(NatStr(n)) - d - 1)
    ELSE NatStr(n \div Pow10(d)) \o <<".">>
            \o (IF d = 0 THEN <<"0">> ELSE PadZeros(NatStr(n % Pow10(d)), d))

\* the text of a timestamp cell
TimeText(v) ==
    <<"2","0","2","5","-","0","1","-","0","1">>
        \o (IF v.k = "taware" THEN <<"T">> ELSE <<" ">>)
        \o PadZeros(NatStr(v.n), 2) \o <<":","0","0">>
        \o (IF v.k = "taware"
            THEN <<":","0","0">> \o (IF v.z < 0 THEN <<"-">> ELSE <<"+">>)
                    \o PadZeros(NatStr(IF v.z < 0 THEN 0 - v.z ELSE v.z), 2)
                    \o <<":","0","0">>
            ELSE <<>>)

FloatOf(x) == FloatStr(x.n, x.d)

\* series.astype(str), element by element, as pandas 1.x and 2.x do it
\* (str() of each element): NaN gives "nan" and None gives "None"
astype_str(v) ==
    CASE v.k = "num"   -> IntStr(v.n)
      [] v.k = "float" -> FloatOf(Dec(v.n, v.z))
      [] v.k = "bool"  -> IF v.n = 1 THEN s_True ELSE s_False
      [] v.k = "str"   -> v.s
      [] v.k = "nan"   -> s_nan
      [] v.k = "none"  -> s_None
      [] OTHER         -> TimeText(v)

\* The dtype pandas infers for a column when it builds the table: a column
\* of numbers, NaN and None that holds a float or NaN, or an integer beside
\* a None, is float64, so its integers are floats and its None is NaN; any
\* other column keeps its elements (dtype int64, bool or object; a column
\* of None only is an object column).
Upcast(series) ==
    IF /\ \A i \in 1..Len(series) : series[i].k \in {"num", "float", "nan", "none"}
       /\ \E i \in 1..Len(series) : series[i].k \in {"float", "nan", "none"}
       /\ \E i \in 1..Len(series) : series[i].k \in {"num", "float", "nan"}
    THEN [i \in 1..Len(series) |->
            CASE series[i].k = "num"  -> Float(series[i].n, 0)
              [] series[i].k = "none" -> NaN
              [] OTHER                -> series[i]]
    ELSE series

----------------------------------------------------------------------------
(* parse_flag_generic *)

tokens ==
    { <<"-","1">>, s_true, s_yes, <<"y">>, <<"t">>, s_anomaly, s_outlier,
      <<"a","b","n","o","r","m","a","l">>, <<"a","l","e","r","t">> }

\* One element of parse_flag_generic: where to_numeric gives a number the
\* flag is (number == -1); elsewhere it is membership of the stripped,
\* lower-cased string form in tokens.
parse_flag_1(v) ==
    IF ~to_numeric(v).nan
    THEN to_numeric(v) = Val(-1)
    ELSE lower(strip(astype_str(v))) \in tokens

parse_flag_generic(series) ==
    IF series = <<>> THEN <<>>
    ELSE [i \in 1..Len(series) |-> parse_flag_1(series[i])]

----------------------------------------------------------------------------
(* coerce_time *)

\* a datetime that may be NaT
At(t) == [nat |-> FALSE, t |-> t, ns |-> 0]
NaT   == [nat |-> TRUE,  t |-> 0, ns |-> 0]

\* The offset of a zone at the instant t (hours on the UTC axis).
\* Asia/Ho_Chi_Minh was at +08:00 from 1959-12-31 16:00 UTC to 1975-06-12
\* 16:00 UTC, which are the hours -569816 and -434408, and is at +07:00
\* since; the instants of the model lie in 1969, 1970, 2024 and 2025.
OffsetAtUtc(zone, t) ==
    IF zone = 7 /\ t >= 0 - 569816 /\ t < 0 - 434408 THEN 8 ELSE zone

\* The offset of a zone when its clock shows hour w (counted from
\* 2025-01-01 00:00 on that clock): tz_localize.
OffsetAtWall(zone, w) ==
    IF zone = 7 /\ w >= 0 - 569808 /\ w < 0 - 434400 THEN 8 ELSE zone

\* the instant ns nanoseconds after 1970-01-01 00:00 on the clock of a
\* zone; 1970-01-01 is 20089 days, 482136 hours, before 2025-01-01
Epoch(ns, zone) ==
    [ nat |-> FALSE,
      t   |-> 0 - 482136
                - OffsetAtWall(zone, IF ns < 0 THEN 0 - 482137 ELSE 0 - 482136),
      ns  |-> ns ]

\* a is not after b
NotAfter(a, b) == a.t < b.t \/ (a.t = b.t /\ a.ns <= b.ns)

\* what coerce_time gives: a column, or an exception
Series(v)    == [raised |-> FALSE, v |-> v]
RaisedSeries == [raised |-> TRUE,  v |-> <<>>]

\* a timestamp text
IsStamp(v) == v.k \in {"tnaive", "taware"}

\* a number, which pd.to_datetime reads as nanoseconds since the epoch
IsEpoch(v) == v.k \in {"num", "float"}

IsTime(v) == IsStamp(v) \/ IsEpoch(v)

\* the whole nanoseconds of a number, a float cut toward zero
Nanos(v) ==
    IF v.k = "num" THEN v.n
    ELSE IF v.n < 0 THEN 0 - ((0 - v.n) \div Pow10(v.z))
    ELSE v.n \div Pow10(v.z)

\* the kind and offset a parseable element carries; a number has no zone
Shape(v) == IF v.k = "taware" THEN <<"aware", v.z>> ELSE <<"naive", 0>>

Shapes(series) ==
    {Shape(series[i]) : i \in {j \in 1..Len(series) : IsTime(series[j])}}

\* pd.to_datetime(series, errors="coerce", utc=True) read element by
\* element: an offset is applied, a zone-less value is taken as UTC
AsUtc(v) ==
    IF IsStamp(v) THEN At(v.n - v.z)
    ELSE IF IsEpoch(v) THEN Epoch(Nanos(v), 0)
    ELSE NaT

\* a zone-less column localized to the zone tz
Localized(v, tz) ==
    IF IsStamp(v) THEN At(v.n - OffsetAtWall(tz, v.n))
    ELSE IF IsEpoch(v) THEN Epoch(Nanos(v), tz)
    ELSE NaT

AssumedTz(c) == IF c.INPUT_TZ # <<>> THEN c.INPUT_TZ[1] ELSE 0

\* The column pd.to_datetime(series, errors="coerce", utc=False) gives when
\* every element is parsed on its own (pandas 1.x; later releases when no
\* format can be guessed from the first element), then lines 50-63.
CoerceElementwise(series, c) ==
    LET sh == Shapes(series)
    IN  IF c.pandas = 3 /\ Cardinality(sh) > 1
        THEN RaisedSeries   \* ValueError: mixed timezones
        ELSE IF \A x \in sh : x[1] = "naive"
        THEN Series([i \in 1..Len(series) |-> Localized(series[i], AssumedTz(c))])
        ELSE IF Cardinality(sh) = 1
        THEN Series([i \in 1..Len(series) |-> AsUtc(series[i])])
        \* mixed: an object column, hasattr(dt, "dt") is False, line 63
        ELSE Series([i \in 1..Len(series) |-> AsUtc(series[i])])

\* the texts pandas' first_non_null passes over besides null values
NULL_TEXTS ==
    { <<>>, <<"N","a","T">>, <<"n","a","t">>, <<"N","A","T">>,
      <<"n","a","n">>, <<"N","a","N">>, <<"N","A","N">>,
      <<"n","o","w">>, <<"t","o","d","a","y">> }

\* pandas 2.x and 3.x: the format is guessed from the first non-null
\* element, when that is a text, and an element that does not match it is
\* coerced to NaT.  0 when every element is null.
FirstNonNull(series) ==
    LET nn == {i \in 1..Len(series) :
                  /\ series[i].k \notin {"nan", "none"}
                  /\ ~(series[i].k = "str" /\ series[i].s \in NULL_TEXTS)}
    IN  IF nn = {} THEN 0 ELSE CHOOSE i \in nn : \A j \in nn : i <= j

CoerceByFormat(series, c) ==
    LET f    == series[FirstNonNull(series)]
        fits(v) == IsStamp(v) /\ v.k = f.k
        kept == {Shape(series[i]) : i \in {j \in 1..Len(series) : fits(series[j])}}
    IN  IF f.k = "tnaive"
        THEN Series([i \in 1..Len(series) |->
                IF fits(series[i]) THEN Localized(series[i], AssumedTz(c)) ELSE NaT])
        ELSE IF Cardinality(kept) > 1 /\ c.pandas = 3
        THEN RaisedSeries   \* ValueError: mixed timezones
        ELSE Series([i \in 1..Len(series) |->
                IF fits(series[i]) THEN AsUtc(series[i]) ELSE NaT])

coerce_time(series, c) ==
    IF series = <<>> THEN Series(<<>>)
    ELSE IF c.pandas = 1 \/ FirstNonNull(series) = 0
            \/ ~IsStamp(series[FirstNonNull(series)])
    THEN CoerceElementwise(series, c)
    ELSE CoerceByFormat(series, c)

----------------------------------------------------------------------------
(* DataFrames *)

HasCol(df, c) == \E i \in 1..Len(df.columns) : df.columns[i] = c

ColIdx(df, c) == CHOOSE i \in 1..Len(df.columns) : df.columns[i] = c

\* df[c] as a sequence of cells
Col(df, c) ==
    IF df.rows = <<>> THEN <<>>
    ELSE [r \in 1..Len(df.rows) |-> df.rows[r][ColIdx(df, c)]]

RECURSIVE Join(_, _)
\* sep.join(parts)
Join(parts, sep) ==
    IF parts = <<>> THEN <<>>
    ELSE IF Len(parts) = 1 THEN parts[1]
    ELSE parts[1] \o sep \o Join(Tail(parts), sep)

RECURSIVE SelectSeq2(_, _)
\* the subsequence of s at the indices in keep
SelectSeq2(s, keep) ==
    IF s = <<>> THEN <<>>
    ELSE SelectSeq2(SubSeq(s, 1, Len(s) - 1), keep)
            \o (IF Len(s) \in keep THEN <<s[Len(s)]>> ELSE <<>>)

----------------------------------------------------------------------------
(* derive_detector_flags *)

\* the (label, column) pairs in the order lines 118-128 visit them
DetectorCols == Z_FLAG_COLS \o <<IF_FLAG_COL>>

\* the labels whose column exists and fires on row r, in that order
FiredLabels(df, r) ==
    LET fires(d) == /\ HasCol(df, DetectorCols[d][2])
                    /\ parse_flag_1(df.rows[r][ColIdx(df, DetectorCols[d][2])])
    IN  SelectSeq2([d \in 1..Len(DetectorCols) |-> DetectorCols[d][1]],
                   {d \in 1..Len(DetectorCols) : fires(d)})

\* row r of (any_flag, methods)
derive_detector_flags(df, r) ==
    [ any_flag |-> FiredLabels(df, r) # <<>>,
      methods  |-> Join(FiredLabels(df, r), <<",", " ">>) ]

----------------------------------------------------------------------------
(* to_canonical *)

\* a string column value that may be NaN
Txt(s) == [nan |-> FALSE, s |-> s]
NoTxt  == [nan |-> TRUE,  s |-> <<>>]

\* str.extract(r"([\d.]+)"): the first run of digits and dots, NaN if none
WindRun(s) ==
    LET ok(i)  == IsDigit(s[i]) \/ s[i] = "."
        starts == {i \in 1..Len(s) : ok(i)}
    IN  IF starts = {} THEN NoTxt
        ELSE LET a == CHOOSE i \in starts : \A j \in starts : i <= j
                 b == CHOOSE i \in a..Len(s) :
                        /\ \A j \in a..i : ok(j)
                        /\ (i = Len(s) \/ ~ok(i + 1))
             IN  Txt(SubSeq(s, a, b))

\* lines 188-200, one row: the method column's text, then the fired labels
FuseMethod(m1, m2) ==
    LET both == IF m1 # <<>> /\ m2 # <<>> THEN m1 \o <<",", " ">> \o m2
                ELSE IF m1 # <<>> THEN m1
                ELSE m2
    IN  IF both = <<>> THEN NoTxt ELSE Txt(both)

\* what to_canonical gives: a frame, None, or an exception
Frame(rows) == [kind |-> "frame",  rows |-> rows]
NoFrame     == [kind |-> "none",   rows |-> <<>>]
RaisedFrame == [kind |-> "raised", rows |-> <<>>]

CanonRow(df, r, c_aqi, c_wind, c_flag, c_meth, c_city, t) ==
    LET cell(c) == df.rows[r][ColIdx(df, c)]
        det     == derive_detector_flags(df, r)
        wind_raw == WindRun(astype_str(cell(c_wind)))
    IN  [ city     |-> astype_str(cell(c_city)),
          time_utc |-> [t |-> t.t, ns |-> t.ns],
          aqi      |-> IF HasCol(df, c_aqi)
                       THEN to_numeric_at(Col(df, c_aqi), r) ELSE NoVal,
          wind     |-> IF HasCol(df, c_wind) /\ ~wind_raw.nan
                       THEN ParseNum(wind_raw.s) ELSE NoVal,
          flag     |-> IF HasCol(df, c_flag)
                       THEN det.any_flag \/ parse_flag_1(cell(c_flag))
                       ELSE det.any_flag,
          method   |-> FuseMethod(
                          IF HasCol(df, c_meth)
                          THEN strip(astype_str(cell(c_meth))) ELSE <<>>,
                          strip(det.methods)),
          source   |-> astype_str(cell(s___source)) ]

to_canonical(df, c) ==
    LET c_city == pick_col(df.columns, ALIASES.city)
        c_time == pick_col(df.columns, ALIASES.time)
        c_aqi  == pick_col(df.columns, ALIASES.aqi)
        c_wind == pick_col(df.columns, ALIASES.wind)
        c_flag == pick_col(df.columns, ALIASES.flag)
        c_meth == pick_col(df.columns, ALIASES.method)
    IN  IF c_city = Raised THEN RaisedFrame
        ELSE IF c_city = None \/ c_time = None THEN NoFrame
        ELSE LET tm == coerce_time(Col(df, c_time), c)
             IN  IF tm.raised \/ ~HasCol(df, s___source) THEN RaisedFrame
                 ELSE IF df.rows = <<>> THEN Frame(<<>>)
                 ELSE LET all == [r \in 1..Len(df.rows) |->
                                    CanonRow(df, r, c_aqi, c_wind, c_flag, c_meth,
                                             c_city, tm.v[r])]
                      IN  \* out.dropna(subset=["time_utc"])
                          Frame(SelectSeq2(all,
                                  {r \in 1..Len(df.rows) : ~tm.v[r].nat}))

----------------------------------------------------------------------------
(* The files a run can meet *)

DF(columns, rows) == [columns |-> columns, rows |-> rows]

\* What is stored under a path: shape "unreadable" (the read or the parse
\* raises), "object" (JSON that is neither a list nor a dict with a list
\* under "data"), or "rows" with the table pandas builds from it.
Body(shape, columns, rows) == [shape |-> shape, df |-> DF(columns, rows)]

s_Hanoi == <<"H","a","n","o","i">>
s_custom == <<"c","u","s","t","o","m">>
s_Hue == <<"H","u","e">>

FILES ==
    << \* Z-score output: Hanoi flagged on AQI at 10h+07, Hue not flagged
       [ path |-> <<"z",".","c","s","v">>,
         body |-> Body("rows",
            <<s_city, s_timestamp, s_aqi, s_zscore_flag_aqi, s_zscore_flag_wind>>,
            << <<Str(s_Hanoi), TAware(10, 7), Num(150), Num(-1), Num(0)>>,
               <<Str(s_Hue),   TAware(10, 7), Num(40),  Num(0),  Num(0)>> >>) ],
       \* IsolationForest output: Hanoi flagged at the same instant, Hue at 9h
       [ path |-> <<"i",".","c","s","v">>,
         body |-> Body("rows",
            <<s_city, s_timestamp, s_anomaly>>,
            << <<Str(s_Hanoi), TAware(10, 7), Num(-1)>>,
               <<Str(s_Hue),   TAware(9, 7),  Num(-1)>> >>) ],
       \* nothing flagged, upper-case extension, zone-less timestamps
       [ path |-> <<"N",".","C","S","V">>,
         body |-> Body("rows",
            <<s_city, s_time, s_anomaly>>,
            << <<Str(s_Hanoi), TNaive(12), Num(1)>> >>) ],
       \* hierarchical file, generic flag as text, a row with a bad timestamp
       [ path |-> <<"g",".","j","s","o","n">>,
         body |-> Body("rows",
            <<s_city, s_time, s_is_anomaly, s_wind>>,
            << <<Str(s_Hue), TNaive(18), Str(s_yes), Str(<<"1","2"," ","k","m">>)>>,
               <<Str(s_Hue), Str(<<"?">>), Str(s_yes), NaN>> >>) ],
       \* a bare list of scalars: pandas labels the only column 0
       [ path |-> <<"b",".","j","s","o","n">>,
         body |-> Body("rows", <<IntLabel(0)>>, << <<Num(1)>>, <<Num(2)>> >>) ],
       \* cannot be read or parsed
       [ path |-> <<"e",".","c","s","v">>,
         body |-> Body("unreadable", <<>>, <<>>) ],
       \* a JSON object without a "data" list
       [ path |-> <<"o",".","j","s","o","n">>,
         body |-> Body("object", <<>>, <<>>) ],
       \* no city column
       [ path |-> <<"s",".","c","s","v">>,
         body |-> Body("rows", <<s_timestamp, s_anomaly>>,
                              << <<TAware(10, 7), Num(-1)>> >>) ],
       \* every timestamp unparseable
       [ path |-> <<"t",".","c","s","v">>,
         body |-> Body("rows", <<s_city, s_time, s_anomaly>>,
                              << <<Str(s_Hanoi), Str(<<"?">>), Num(-1)>> >>) ],
       \* a table that brings its own __source column, and whose instants are
       \* numbers: one nanosecond before and after the epoch
       [ path |-> <<"p",".","c","s","v">>,
         body |-> Body("rows", <<s_city, s_time, s___source, s_anomaly>>,
                              << <<Str(s_Hue), Num(1), Str(s_custom), Num(-1)>>,
                                 <<Str(s_Hue), Num(-1), Str(s_custom), Num(-1)>> >>) ],
       \* eighteen flagged rows of one city: the first two at 11h+07, the
       \* others at 10h+07; the aqi cell of row r holds r
       [ path |-> <<"h",".","c","s","v">>,
         body |-> Body("rows", <<s_city, s_timestamp, s_aqi, s_anomaly>>,
                    [r \in 1..18 |->
                        <<Str(s_Hanoi), TAware(IF r <= 2 THEN 11 ELSE 10, 7),
                          Num(r), Num(-1)>>]) ],
       \* an empty list
       [ path |-> <<"0",".","j","s","o","n">>,
         body |-> Body("rows", <<>>, <<>>) ],
       \* not a .csv or .json path
       [ path |-> <<"x",".","t","x","t">>,
         body |-> Body("unreadable", <<>>, <<>>) ] >>

\* pd.read_csv / pd.DataFrame(rows): every column gets its dtype
AsRead(df) ==
    IF df.rows = <<>> \/ df.columns = <<>> THEN df
    ELSE DF(df.columns,
            [r \in 1..Len(df.rows) |->
                [c \in 1..Len(df.columns) |->
                    Upcast([q \in 1..Len(df.rows) |-> df.rows[q][c]])[r]]])

FileAt(p) == FILES[CHOOSE i \in 1..Len(FILES) : FILES[i].path = p].body

\* Python None for a DataFrame
NoDF == [columns |-> <<None>>, rows |-> <<>>]

\* df["__source"] = p: p on every row of the column __source, which is a
\* new last column unless the table has one already
WithSource(df, p) ==
    IF \E i \in 1..Len(df.columns) : df.columns[i] = s___source
    THEN DF(df.columns,
            IF df.rows = <<>> THEN <<>>
            ELSE [r \in 1..Len(df.rows) |->
                    [i \in 1..Len(df.columns) |->
                        IF df.columns[i] = s___source THEN Str(p)
                        ELSE df.rows[r][i]]])
    ELSE DF(df.columns \o <<s___source>>,
            IF df.rows = <<>> THEN <<>>
            ELSE [r \in 1..Len(df.rows) |-> df.rows[r] \o <<Str(p)>>])

read_csv_any(p) ==
    IF FileAt(p).shape # "rows" THEN NoDF
    ELSE WithSource(AsRead(FileAt(p).df), p)

read_json_any(p) ==
    IF FileAt(p).shape = "unreadable" THEN NoDF
    ELSE IF FileAt(p).shape = "object" THEN NoDF
    ELSE WithSource(AsRead(FileAt(p).df), p)

\* df.empty
empty(df) == df.rows = <<>> \/ df.columns = <<>>

----------------------------------------------------------------------------
(* main *)

RECURSIVE Flatten(_)
\* pd.concat(frames, ignore_index=True)
Flatten(fs) == IF fs = <<>> THEN <<>> ELSE Head(fs) \o Flatten(Tail(fs))

\* lines 215-216 on the lines of the decoded string: strip each, drop blanks
decode_changed_files_env(lines) ==
    LET stripped == IF lines = <<>> THEN <<>>
                    ELSE [i \in 1..Len(lines) |-> strip(lines[i])]
        NonBlank(l) == l # <<>>
    IN  SelectSeq(stripped, NonBlank)

IsCsv(p) == endswith(lower(p), <<".","c","s","v">>)
IsJson(p) == endswith(lower(p), <<".","j","s","o","n">>)
IsCsvOrJson(p) == IsCsv(p) \/ IsJson(p)

\* lines 219-227
InputPaths(lines, listing) ==
    LET ch == decode_changed_files_env(lines)
    IN  SelectSeq(IF ch = <<>> THEN listing ELSE ch, IsCsvOrJson)

\* lines 234-239 for one path: the frame to append, <<>> for "continue"
LoadOne(p, c) ==
    LET df == IF IsCsv(p) THEN read_csv_any(p) ELSE read_json_any(p)
    IN  IF df = NoDF \/ empty(df) THEN Frame(<<>>)
        ELSE to_canonical(df, c)

\* big.sort_values("time_utc") (line 254) is numpy's argsort of the
\* instants with kind="quicksort": an introsort over the row indices a.
\* The instant of row x is before that of row y.
Less(rows, x, y) == ~NotAfter(rows[y].time_utc, rows[x].time_utc)

\* a with the elements at i and j in each other's place
Swap(a, i, j) ==
    SubSeq([k \in 1..Len(a) |->
                IF k = i THEN a[j] ELSE IF k = j THEN a[i] ELSE a[k]],
           1, Len(a))

\* if the row at i is before the row at j, the two change places
SwapIfLess(rows, a, i, j) ==
    IF Less(rows, a[i], a[j]) THEN Swap(a, i, j) ELSE a

\* the median of the first, middle and last element moves to the middle
Median3(rows, a, pm) ==
    SwapIfLess(rows,
        SwapIfLess(rows, SwapIfLess(rows, a, pm, 1), Len(a), pm),
        pm, 1)

RECURSIVE ScanUp(_, _, _, _)
\* do ++pi while the row at pi is before the pivot row p
ScanUp(rows, a, i, p) ==
    IF Less(rows, a[i + 1], p) THEN ScanUp(rows, a, i + 1, p) ELSE i + 1

RECURSIVE ScanDown(_, _, _, _)
\* do --pj while the pivot row p is before the row at pj
ScanDown(rows, a, j, p) ==
    IF Less(rows, p, a[j - 1]) THEN ScanDown(rows, a, j - 1, p) ELSE j - 1

RECURSIVE Partition(_, _, _, _, _)
\* the partition loop; the pivot, parked before the last element, ends
\* at the position returned with the indices
Partition(rows, a, i, j, p) ==
    LET pi == ScanUp(rows, a, i, p)
        pj == ScanDown(rows, a, j, p)
    IN  IF pi >= pj THEN <<Swap(a, pi, Len(a) - 1), pi>>
        ELSE Partition(rows, Swap(a, pi, pj), pi, pj, p)

RECURSIVE Insert(_, _, _)
\* row x put into the ascending run s, behind the rows it is not before
Insert(rows, s, x) ==
    IF s # <<>> /\ Less(rows, x, s[Len(s)])
    THEN Append(Insert(rows, SubSeq(s, 1, Len(s) - 1), x), s[Len(s)])
    ELSE Append(s, x)

RECURSIVE InsertionSort(_, _)
InsertionSort(rows, a) ==
    IF a = <<>> THEN <<>>
    ELSE Insert(rows, InsertionSort(rows, SubSeq(a, 1, Len(a) - 1)), a[Len(a)])

RECURSIVE aquicksort(_, _)
\* A run of more than 17 indices is partitioned around the median of
\* three and each side sorted in turn; a shorter run is sorted by
\* insertion, which keeps rows of one instant in their order.  (The
\* switch to heapsort after 2 * log2(n) partitions is out of reach of
\* the tables of the model.)
aquicksort(rows, a) ==
    IF Len(a) - 1 > 16
    THEN LET pm   == 1 + ((Len(a) - 1) \div 2)
             m    == Median3(rows, a, pm)
             part == Partition(rows, Swap(m, pm, Len(a) - 1), 1, Len(a) - 1, m[pm])
         IN  aquicksort(rows, SubSeq(part[1], 1, part[2] - 1))
                \o <<part[1][part[2]]>>
                \o aquicksort(rows, SubSeq(part[1], part[2] + 1, Len(a)))
    ELSE InsertionSort(rows, a)

RECURSIVE arange(_)
\* the indices 1 .. n
arange(n) == IF n = 0 THEN <<>> ELSE Append(arange(n - 1), n)

\* the order of the rows after line 254, as indices into rows
argsort(rows) == aquicksort(rows, arange(Len(rows)))

\* groupby("city").tail(1): of each city the last row, order kept
TailPerCity(rows) ==
    SelectSeq2(rows, {i \in 1..Len(rows) :
                        \A j \in (i + 1)..Len(rows) : rows[j].city # rows[i].city})

\* line 248 without the comparison: every record is kept
KeepEveryRecord(r) == r.flag \/ ~r.flag

\* the mask of line 248: big["flag"] == True
IsFlagged(r) == r.flag

RECURSIVE PowMod2(_, _)
\* 2^k mod m
PowMod2(k, m) == IF k = 0 THEN 1 % m ELSE (2 * PowMod2(k - 1, m)) % m

RECURSIVE FloorLog2(_, _)
\* floor(log2(a / b)) for a >= b > 0
FloorLog2(a, b) == IF a < 2 * b THEN 0 ELSE 1 + FloorLog2(a, 2 * b)

RECURSIVE CeilLog2(_, _)
\* the least j >= 1 with a * 2^j >= b, for 0 < a < b
CeilLog2(a, b) == IF 2 * a >= b THEN 1 ELSE 1 + CeilLog2(2 * a, b)

\* How the float64 nearest to a / 10^d (a > 0) lies to a / 10^d itself:
\* 0 when a / 10^d is a float64, 1 when the float64 is greater, -1 when it
\* is smaller.  With k chosen so that a * 2^k / 10^d has 53 bits, this is
\* decided by the remainder of a * 2^k modulo 10^d.
FloatError(a, d) ==
    LET m == Pow10(d)
        e == IF a >= m THEN FloorLog2(a, m) ELSE 0 - CeilLog2(a, m)
        r == ((a % m) * PowMod2(52 - e, m)) % m
    IN  IF r = 0 THEN 0 ELSE IF 2 * r > m THEN 1 ELSE -1

\* f"{v:.{p}f}" of a float64: the float's exact value rounded to p
\* decimals, a tie (possible only for a value that is exactly a float64)
\* going to the even digit
FormatFixed(v, p) ==
    LET a    == IF v.n < 0 THEN 0 - v.n ELSE v.n
        unit == Pow10(v.d - p)
        q    == a \div unit
        r    == a % unit
        up   == \/ 2 * r > unit
                \/ /\ 2 * r = unit
                   /\ \/ FloatError(a, v.d) = 1
                      \/ FloatError(a, v.d) = 0 /\ q % 2 = 1
        w    == IF v.d <= p THEN a * Pow10(p - v.d)
                ELSE IF up THEN q + 1 ELSE q
    IN  IF v.inf THEN (IF v.n < 0 THEN <<"-">> ELSE <<>>) \o <<"i","n","f">>
        ELSE (IF v.n < 0 \/ v.negzero THEN <<"-">> ELSE <<>>)
                \o NatStr(w \div Pow10(p))
                \o (IF p = 0 THEN <<>>
                    ELSE <<".">> \o PadZeros(NatStr(w % Pow10(p)), p))

\* the civil date of day z, counted from 1970-01-01, as <<year, month, day>>
CivilFromDays(z) ==
    LET era == (z + 719468) \div 146097
        doe == (z + 719468) - era * 146097
        yoe == (doe - doe \div 1460 + doe \div 36524 - doe \div 146096) \div 365
        doy == doe - (365 * yoe + yoe \div 4 - yoe \div 100)
        mp  == (5 * doy + 2) \div 153
        m   == IF mp < 10 THEN mp + 3 ELSE mp - 9
    IN  << yoe + era * 400 + (IF m <= 2 THEN 1 ELSE 0), m,
           doy - (153 * mp + 2) \div 5 + 1 >>

\* lines 258-260: ts.tz_convert(LOCAL_TZ).strftime("%Y-%m-%d %H:%M"); the
\* nanoseconds of an instant stay within a few seconds, so they move the
\* minute only when they are negative
fmt_local(ts, c) ==
    LET off  == OffsetAtUtc(c.LOCAL_TZ, IF ts.ns < 0 THEN ts.t - 1 ELSE ts.t)
        mins == (ts.t + off) * 60 - (IF ts.ns < 0 THEN 1 ELSE 0)
        ymd  == CivilFromDays(20089 + mins \div 1440)
    IN  PadZeros(NatStr(ymd[1]), 4) \o <<"-">> \o PadZeros(NatStr(ymd[2]), 2)
            \o <<"-">> \o PadZeros(NatStr(ymd[3]), 2) \o <<" ">>
            \o PadZeros(NatStr((mins % 1440) \div 60), 2) \o <<":">>
            \o PadZeros(NatStr(mins % 60), 2)

\* lines 276-282: one table line of the report, as its cells
RenderRow(r, c) ==
    [ city |-> r.city,
      ts   |-> fmt_local(r.time_utc, c),
      aqi  |-> IF r.aqi.nan THEN <<>> ELSE FormatFixed(r.aqi, 0),
      wnd  |-> IF r.wind.nan THEN <<>> ELSE FormatFixed(r.wind, 2),
      meth |-> IF r.method.nan THEN <<>> ELSE r.method.s,
      src  |-> r.source ]

Absent == [exists |-> FALSE, rows |-> <<>>]
Written(rows) == [exists |-> TRUE, rows |-> rows]

IdlePure == fn = "none" /\ arg = <<>> /\ ret = <<>>

\* lines 219-230
Start ==
    /\ pc = "start"
    /\ paths' = InputPaths(changed, scan)
    /\ pc' = IF paths' = <<>> THEN "done" ELSE "loop"
    /\ idx' = 1
    /\ UNCHANGED <<crawlVars, cfg, fn, arg, ret, changed, scan, frames, big, latest,
                   out_file, writes>>

\* lines 233-239: one iteration of the for loop that completes
LoadFile ==
    /\ pc = "loop"
    /\ idx <= Len(paths)
    /\ LET cdf == LoadOne(paths[idx], cfg)
       IN  /\ cdf.kind # "raised"
           /\ frames' = IF cdf.rows # <<>> THEN Append(frames, cdf.rows) ELSE frames
    /\ idx' = idx + 1
    /\ UNCHANGED <<crawlVars, cfg, fn, arg, ret, pc, changed, scan, paths, big, latest,
                   out_file, writes>>

\* lines 233-239: an iteration in which to_canonical raises; nothing in
\* main catches it, the run ends with a traceback
LoadRaises ==
    /\ pc = "loop"
    /\ idx <= Len(paths)
    /\ LoadOne(paths[idx], cfg).kind = "raised"
    /\ pc' = "crashed"
    /\ UNCHANGED <<crawlVars, cfg, fn, arg, ret, changed, scan, paths, idx, frames, big,
                   latest, out_file, writes>>

\* lines 241-251
Concat ==
    /\ pc = "loop"
    /\ idx > Len(paths)
    /\ big' = SelectSeq(Flatten(frames), IsFlagged)
    /\ pc' = IF frames = <<>> \/ big' = <<>> THEN "done" ELSE "select"
    /\ UNCHANGED <<crawlVars, cfg, fn, arg, ret, changed, scan, paths, idx, frames, latest,
                   out_file, writes>>

\* lines 254-255
SortSelect ==
    /\ pc = "select"
    /\ latest' = TailPerCity([i \in 1..Len(big) |-> big[argsort(big)[i]]])
    /\ pc' = "render"
    /\ UNCHANGED <<crawlVars, cfg, fn, arg, ret, changed, scan, paths, idx, frames, big,
                   out_file, writes>>

\* lines 257-267: pd.Timestamp.utcnow() is already zone-aware and
\* tz_localize("UTC") of a zone-aware Timestamp raises TypeError; nothing
\* catches it, so lines 269-285 (RenderRow, write_text) are never reached
\* and the run ends with a traceback, out/anomaly_email.md untouched.
Render ==
    /\ pc = "render"
    /\ pc' = "aborted"
    /\ UNCHANGED <<crawlVars, cfg, fn, arg, ret, changed, scan, paths, idx, frames, big,
                   latest, out_file, writes>>

----------------------------------------------------------------------------
(* Environments and inputs *)

\* longest CHANGED_FILES list, longest column list, longest series, most
\* optional columns and most rows of a generated table
MaxFiles == 2
MaxCols == 2
MaxSeries == 2
MaxExtra == 2
MaxRows == 1
\* most rows of a table whose city and timestamp cells vary
MaxTableRows == 2

SeqsUpTo(S, n) == UNION {[1..k -> S] : k \in 0..n}

NoRepeat(s) == \A i, j \in 1..Len(s) : i # j => s[i] # s[j]

\* pandas major release of the build; INPUT_TZ unset, Asia/Ho_Chi_Minh or
\* UTC; LOCAL_TZ Asia/Ho_Chi_Minh (the default) or UTC
Cfgs == [pandas : {1, 2, 3}, INPUT_TZ : {<<>>, <<7>>, <<0>>}, LOCAL_TZ : {7, 0}]

\* the environment when neither INPUT_TZ nor LOCAL_TZ is set
DefaultCfgs == [pandas : {2}, INPUT_TZ : {<<>>}, LOCAL_TZ : {7}]

\* the environments main() is run in
MainCfgs == [pandas : {2}, INPUT_TZ : {<<>>, <<7>>}, LOCAL_TZ : {7, 0}]

IdleMain ==
    /\ pc = "idle" /\ changed = <<>> /\ scan = <<>> /\ paths = <<>> /\ idx = 0
    /\ frames = <<>> /\ big = <<>> /\ latest = <<>> /\ out_file = Absent
    /\ writes = 0

mainVars == <<pc, changed, scan, paths, idx, frames, big, latest, out_file, writes>>

----------------------------------------------------------------------------
(* main() over lists of input files *)

LinePool ==
    {FILES[i].path : i \in 1..Len(FILES)}
        \cup {<<" ", "\t">>, FILES[2].path \o <<"\t">>}

Listings == {<<>>, <<FILES[1].path, FILES[Len(FILES)].path>>}

Init ==
    /\ cfg \in MainCfgs
    /\ IdlePure
    /\ IdleCrawl
    /\ pc = "start"
    /\ changed \in SeqsUpTo(LinePool, MaxFiles)
    /\ scan \in IF decode_changed_files_env(changed) = <<>> THEN Listings ELSE {<<>>}
    /\ paths = <<>> /\ idx = 0 /\ frames = <<>> /\ big = <<>> /\ latest = <<>>
    /\ out_file = Absent
    /\ writes = 0

Next == Start \/ LoadFile \/ LoadRaises \/ Concat \/ SortSelect \/ Render

Spec == Init /\ [][Next]_vars

----------------------------------------------------------------------------
(* pick_col over column lists *)

ColumnPool ==
    { s_city, <<"C","i","t","y">>, <<"C","I","T","Y">>, s_location,
      <<"m","y","_","c","i","t","y">>, s_timestamp, <<"T","i","m","e">>,
      <<"u","p","d","a","t","e">>, s_anomaly, s___source,
      <<"G","I","Ó">> }

AliasLists == {ALIASES.city, ALIASES.time, ALIASES.aqi, ALIASES.wind,
               ALIASES.flag, ALIASES.method}

InitPick ==
    /\ cfg \in DefaultCfgs
    /\ IdleMain
    /\ IdleCrawl
    /\ fn = "pick_col"
    /\ arg \in [columns : {s \in SeqsUpTo(ColumnPool, MaxCols) : NoRepeat(s)},
                names : AliasLists]
    /\ ret = <<>>

ApplyPickCol ==
    /\ fn = "pick_col" /\ ret = <<>>
    /\ ret' = <<pick_col(arg.columns, arg.names)>>
    /\ UNCHANGED <<crawlVars, cfg, fn, arg, mainVars>>

SpecPick == InitPick /\ [][ApplyPickCol]_vars

----------------------------------------------------------------------------
(* parse_flag_generic over flag columns *)

FlagPool ==
    { Num(-1), Num(0), Num(1), Bool(TRUE), Bool(FALSE), NaN,
      Str(<<"-","1">>), Str(<<"1">>), Str(<<"0">>), Str(s_true),
      Str(<<" ","T","r","u","e"," ">>), Str(s_yes), Str(<<"Y","E","S">>),
      Str(s_anomaly), Str(s_outlier), Str(<<"n","o">>), Str(<<>>),
      Str(<<"-","1",".","0">>), Str(<<"-","1","e","0">>),
      Str(<<"\t","y","e","s","\n">>), Str(<<"1",".","5">>),
      Str(<<" ","-","1",".","0">>), Str(<<" ","y","e","s">>),
      Str(<<" ","-","1">>) }

InitFlag ==
    /\ cfg \in DefaultCfgs
    /\ IdleMain
    /\ IdleCrawl
    /\ fn = "parse_flag_generic"
    /\ arg \in {Upcast(s) : s \in SeqsUpTo(FlagPool, MaxSeries) \ {<<>>}}
    /\ ret = <<>>

ApplyParseFlag ==
    /\ fn = "parse_flag_generic" /\ ret = <<>>
    /\ ret' = <<parse_flag_generic(arg)>>
    /\ UNCHANGED <<crawlVars, cfg, fn, arg, mainVars>>

SpecFlag == InitFlag /\ [][ApplyParseFlag]_vars

----------------------------------------------------------------------------
(* coerce_time over timestamp columns *)

TimePool ==
    { TNaive(10), TNaive(3), TAware(10, 7), TAware(10, 0), TAware(3, 7),
      Str(<<"?">>), NaN, Num(1), Str(<<>>) }

\* Columns whose first non-null value is not a timestamp text are
\* enumerated only when the rest is of one shape.
TimeSeries(maxLen) ==
    {s \in SeqsUpTo(TimePool, maxLen) \ {<<>>} :
        \/ FirstNonNull(s) # 0 /\ IsStamp(s[FirstNonNull(s)])
        \/ Cardinality(Shapes(s)) <= 1}

InitTime ==
    /\ cfg \in Cfgs
    /\ IdleMain
    /\ IdleCrawl
    /\ fn = "coerce_time"
    /\ arg \in TimeSeries(MaxSeries)
    /\ ret = <<>>

ApplyCoerceTime ==
    /\ fn = "coerce_time" /\ ret = <<>>
    /\ ret' = <<coerce_time(arg, cfg)>>
    /\ UNCHANGED <<crawlVars, cfg, fn, arg, mainVars>>

SpecTime == InitTime /\ [][ApplyCoerceTime]_vars

----------------------------------------------------------------------------
(* to_canonical over tables as the loader hands them over *)

\* optional columns and the values a generated row may hold in each
Extras ==
    << [col |-> s_anomaly,          vals |-> {Num(-1), Num(1)}],
       [col |-> s_zscore_flag_aqi,  vals |-> {Num(-1), Num(0)}],
       [col |-> s_zscore_flag_wind, vals |-> {Num(-1), Num(0)}],
       [col |-> s_is_anomaly,       vals |-> {Str(s_yes), Num(0), Bool(TRUE)}],
       [col |-> s_method,           vals |-> {Str(IF_FLAG_COL[1]), Str(s_custom),
                                              Str(<<" ">>), NaN}],
       [col |-> s_aqi,              vals |-> {Num(150), Str(<<"-","0">>),
                                              Str(<<"-","0",".","0">>)}],
       [col |-> s_wind,             vals |-> {Str(<<"1","2"," ","k","m">>),
                                              Str(<<"7",".","4"," ","k","m","/","h">>),
                                              Float(1, 5)}] >>

TimeVals == {TAware(10, 7), Str(<<"?">>), Num(1)}

SrcPath == <<"a",".","c","s","v">>

RECURSIVE RowsFor(_)
\* the rows over the optional columns listed (ascending indices into Extras)
RowsFor(es) ==
    IF es = <<>> THEN {<<>>}
    ELSE {<<v>> \o rest : v \in Extras[Head(es)].vals, rest \in RowsFor(Tail(es))}

Ascending(es) == \A i \in 1..(Len(es) - 1) : es[i] < es[i + 1]

\* a table: city, time, some optional columns, then the loader's __source
TablesOver(es, maxRows) ==
    { AsRead(DF(<<s_city, s_timestamp>>
                    \o [i \in 1..Len(es) |-> Extras[es[i]].col]
                    \o <<s___source>>,
                rows)) :
      rows \in { [r \in 1..n |-> <<Str(s_Hanoi), tv[r]>> \o ex[r] \o <<Str(SrcPath)>>] :
                 n \in 1..maxRows, tv \in [1..maxRows -> TimeVals],
                 ex \in [1..maxRows -> RowsFor(es)] } }

Tables(maxExtra, maxRows) ==
    UNION { TablesOver(es, maxRows) :
            es \in {s \in SeqsUpTo(1..Len(Extras), maxExtra) : Ascending(s)} }

InitCanon ==
    /\ cfg \in DefaultCfgs
    /\ IdleMain
    /\ IdleCrawl
    /\ fn = "to_canonical"
    /\ arg \in Tables(MaxExtra, MaxRows)
    /\ ret = <<>>

ApplyToCanonical ==
    /\ fn = "to_canonical" /\ ret = <<>>
    /\ ret' = <<to_canonical(arg, cfg)>>
    /\ UNCHANGED <<crawlVars, cfg, fn, arg, mainVars>>

SpecCanon == InitCanon /\ [][ApplyToCanonical]_vars

----------------------------------------------------------------------------
(* to_canonical over tables whose city and timestamp cells vary *)

\* a city cell: a name, the empty string, a missing value, a JSON null
CityVals == {Str(s_Hanoi), Str(<<>>), NaN, NoneCell}

\* a timestamp cell: zone-less, with an offset, unparseable, a number
RowTimeVals == {TNaive(10), TAware(10, 7), Str(<<"?">>), Num(1)}

\* the environments to_canonical meets with object columns whose
\* astype(str) is str() of each element: pandas 1.x and 2.x
PandasCfgs == [pandas : {1, 2}, INPUT_TZ : {<<>>}, LOCAL_TZ : {7}]

\* Tables with the columns city, timestamp, aqi, __source; the aqi cell of
\* row r holds r.  As in TimeSeries, a timestamp column whose first value
\* is not a timestamp text is enumerated only when the rest is of one shape.
RowTables(maxRows) ==
    { AsRead(DF(<<s_city, s_timestamp, s_aqi, s___source>>,
                [r \in 1..n |-> <<cv[r], tv[r], Num(r), Str(SrcPath)>>])) :
      n \in 1..maxRows,
      cv \in [1..maxRows -> CityVals],
      tv \in {s \in [1..maxRows -> RowTimeVals] :
                \/ IsStamp(s[1])
                \/ Cardinality(Shapes(s)) <= 1} }

InitRows ==
    /\ cfg \in PandasCfgs
    /\ IdleMain
    /\ IdleCrawl
    /\ fn = "to_canonical"
    /\ arg \in RowTables(MaxTableRows)
    /\ ret = <<>>

SpecRows == InitRows /\ [][ApplyToCanonical]_vars

----------------------------------------------------------------------------
(* crawl_data.py: save_to_csv and crawl_all_cities *)

\* two of the eight entries of CITIES
CITIES ==
    << [name |-> <<"h","a","n","o","i">>, display_name |-> <<"H","a"," ","N","o","i">>],
       [name |-> <<"h","u","e">>,   display_name |-> s_Hue] >>

\* now.year and now.month of the clock value n (0 is January 2025)
Year(n)  == 2025 + (n \div 12)
Month(n) == (n % 12) + 1

\* now.strftime('%b').lower()
MonthAbbr ==
    << <<"j","a","n">>, <<"f","e","b">>, <<"m","a","r">>,
       <<"a","p","r">>, <<"m","a","y">>, <<"j","u","n">>,
       <<"j","u","l">>, <<"a","u","g">>, <<"s","e","p">>,
       <<"o","c","t">>, <<"n","o","v">>, <<"d","e","c">> >>

\* now.isoformat(), to the month
isoformat(n) ==
    NatStr(Year(n)) \o <<"-">>
        \o (IF Month(n) < 10 THEN <<"0">> ELSE <<>>) \o NatStr(Month(n))

\* lines 194-197: data/{city_name}/aqi_{city_name}_{year}_{mon}.csv
filepath(city_name, n) ==
    <<"d","a","t","a","/">> \o city_name \o <<"/","a","q","i","_">> \o city_name \o <<"_">>
        \o NatStr(Year(n)) \o <<"_">> \o MonthAbbr[Month(n)] \o <<".","c","s","v">>

headers ==
    << s_timestamp, s_city, s_aqi, <<"w","e","a","t","h","e","r","_","i","c","o","n">>,
       <<"w","i","n","d","_","s","p","e","e","d">>, <<"h","u","m","i","d","i","t","y">> >>

\* the dict crawl_city_data returns (lines 172-180) for a validated reading
Reading(city, n, aqi) ==
    [ timestamp    |-> isoformat(n),
      city         |-> city.display_name,
      aqi          |-> aqi,
      weather_icon |-> <<"/","d","l","/","w","e","b","/","w","e","a","t","h","e","r","/","i","c",".","s","v","g">>,
      wind_speed   |-> <<"7",".","4"," ","k","m","/","h">>,
      humidity     |-> <<"7","8","%">> ]

\* writer.writerow(data): the values in the order of fieldnames
csv_row(rec) ==
    << rec.timestamp, rec.city, rec.aqi, rec.weather_icon,
       rec.wind_speed, rec.humidity >>

RECURSIVE DoubleQuotes(_)
\* csv, doublequote=True: every quote character of a quoted field twice
DoubleQuotes(s) ==
    IF s = <<>> THEN <<>>
    ELSE (IF Head(s) = "\"" THEN <<"\"", "\"">> ELSE <<Head(s)>>)
            \o DoubleQuotes(Tail(s))

\* csv.QUOTE_MINIMAL: a field is quoted when it holds the delimiter, the
\* quote character or a character of the line terminator
csv_field(s) ==
    IF \E i \in 1..Len(s) : s[i] \in {",", "\"", "\r", "\n"}
    THEN <<"\"">> \o DoubleQuotes(s) \o <<"\"">>
    ELSE s

\* the text csv.writer makes of one row: the fields joined by commas and
\* ended by the default line terminator "\r\n" (the file is opened with
\* newline="", so the terminator reaches the file as it is)
csv_line(fields) ==
    Join([k \in 1..Len(fields) |-> csv_field(fields[k])], <<",">>)
        \o <<"\r", "\n">>

\* a path of the disk: no file, or a file with its text
NoFile     == [exists |-> FALSE, text |-> <<>>]
File(text) == [exists |-> TRUE,  text |-> text]

\* lines 200-205: the text one call hands to the file opened in line 201,
\* the header line only when the file did not exist (line 200), then the
\* row
written(old, rec) ==
    (IF ~old.exists THEN csv_line(headers) ELSE <<>>) \o csv_line(csv_row(rec))

\* lines 199-205 of a call that returns: open(filepath, "a") keeps what
\* the file holds and the text is added at its end
save_text(old, rec) == File(old.text \o written(old, rec))

\* most crawl_all_cities() runs and most month changes of the clock
MaxRuns == 2
MaxTicks == 1

\* most save_to_csv calls that raise
MaxFaults == 1

\* the clock starts in November or December 2025
StartMonths == {10, 11}

\* the months the clock can show
Months == 10..(11 + MaxTicks)

\* validated AQI readings
AqiPool == {<<"6","8">>, <<"1","5","2">>}

\* the paths save_to_csv can touch
FileNames ==
    {filepath(CITIES[i].name, n) :
        i \in 1..Len(CITIES), n \in Months}

\* the save_to_csv calls that raised so far
Faults ==
    LET Raises(call) == call.how # "returned"
    IN  Len(SelectSeq(saved, Raises))

\* the scheduler starts crawl_all_cities (line 244)
StartCrawl ==
    /\ ci = 0
    /\ runs < MaxRuns
    /\ ci' = 1
    /\ runs' = runs + 1
    /\ results' = <<>>
    /\ UNCHANGED <<cfg, fn, arg, ret, mainVars, now, disk, saved, data>>

\* lines 220-222: crawl_city_data gives a reading stamped with the clock
\* of line 172, and results.append(data)
CrawlCityData ==
    /\ ci \in 1..Len(CITIES)
    /\ data = <<>>
    /\ \E aqi \in AqiPool :
          /\ data' = <<Reading(CITIES[ci], now, aqi)>>
          /\ results' = Append(results, data'[1])
    /\ UNCHANGED <<cfg, fn, arg, ret, mainVars, now, disk, saved, ci, runs>>

\* line 223: save_to_csv(data, city["name"]) returns (lines 192-206); the
\* file is named after the clock of line 193
SaveToCsv ==
    /\ ci \in 1..Len(CITIES)
    /\ data # <<>>
    /\ LET path == filepath(CITIES[ci].name, now)
       IN  disk' = [disk EXCEPT ![path] = save_text(@, data[1])]
    /\ saved' = Append(saved, [city |-> CITIES[ci].name, at |-> now,
                               data |-> data[1], how |-> "returned"])
    /\ data' = <<>>
    /\ ci' = ci + 1
    /\ UNCHANGED <<cfg, fn, arg, ret, mainVars, now, runs, results>>

\* line 223: save_to_csv raises before the file is opened (mkdir of line
\* 195 or open of line 201 fails); the handler of line 232 goes on with
\* the next city
SaveRaisesUnopened ==
    /\ ci \in 1..Len(CITIES)
    /\ data # <<>>
    /\ Faults < MaxFaults
    /\ saved' = Append(saved, [city |-> CITIES[ci].name, at |-> now,
                               data |-> data[1], how |-> "unopened"])
    /\ data' = <<>>
    /\ ci' = ci + 1
    /\ UNCHANGED <<cfg, fn, arg, ret, mainVars, now, disk, runs, results>>

\* line 223: save_to_csv raises after open(filepath, "a") created or
\* opened the file (lines 201-205): writerow raises and the header is
\* flushed when the file is closed, or the flush of the buffered text
\* fails part of the way (a full disk). The file exists and holds, after
\* what it held, any proper prefix of the text the call was to write:
\* nothing, a cut header, the header line alone, the header and a cut
\* row, or a cut row below the rows of earlier calls.
SaveRaisesOpened ==
    /\ ci \in 1..Len(CITIES)
    /\ data # <<>>
    /\ Faults < MaxFaults
    /\ LET path == filepath(CITIES[ci].name, now)
           text == written(disk[path], data[1])
       IN  \E cut \in 0..(Len(text) - 1) :
              disk' = [disk EXCEPT ![path] = File(@.text \o SubSeq(text, 1, cut))]
    /\ saved' = Append(saved, [city |-> CITIES[ci].name, at |-> now,
                               data |-> data[1], how |-> "opened"])
    /\ data' = <<>>
    /\ ci' = ci + 1
    /\ UNCHANGED <<cfg, fn, arg, ret, mainVars, now, runs, results>>

\* lines 220-234: crawl_city_data returns None or Playwright raises; the
\* city is skipped
CrawlCitySkipped ==
    /\ ci \in 1..Len(CITIES)
    /\ data = <<>>
    /\ ci' = ci + 1
    /\ UNCHANGED <<cfg, fn, arg, ret, mainVars, now, disk, saved, runs, results,
                   data>>

\* line 235: return results
CrawlReturn ==
    /\ ci = Len(CITIES) + 1
    /\ ci' = 0
    /\ UNCHANGED <<cfg, fn, arg, ret, mainVars, now, disk, saved, runs, results,
                   data>>

\* get_vietnam_time() (lines 26-28) passes into the next month
Tick ==
    /\ now + 1 \in Months
    /\ now' = now + 1
    /\ UNCHANGED <<cfg, fn, arg, ret, mainVars, disk, saved, ci, runs, results,
                   data>>

InitCrawl ==
    /\ cfg \in DefaultCfgs
    /\ IdlePure
    /\ IdleMain
    /\ now \in StartMonths
    /\ disk = [f \in FileNames |-> NoFile]
    /\ saved = <<>>
    /\ ci = 0
    /\ runs = 0
    /\ results = <<>>
    /\ data = <<>>

NextCrawl ==
    \/ StartCrawl \/ CrawlCityData \/ SaveToCsv \/ SaveRaisesUnopened
    \/ SaveRaisesOpened \/ CrawlCitySkipped \/ CrawlReturn \/ Tick

SpecCrawl == InitCrawl /\ [][NextCrawl]_vars

----------------------------------------------------------------------------
(* Helpers of the properties *)

RECURSIVE Split(_)
\* s.split(", ")
Split(s) ==
    LET at == {i \in 1..(Len(s) - 1) : s[i] = "," /\ s[i + 1] = " "}
    IN  IF at = {} THEN <<s>>
        ELSE LET i == CHOOSE x \in at : \A y \in at : x <= y
             IN  <<SubSeq(s, 1, i - 1)>> \o Split(SubSeq(s, i + 2, Len(s)))

\* the method names a canonical record carries
MethodList(r) == IF r.method.nan THEN <<>> ELSE Split(r.method.s)

Called(f) == fn = f /\ ret # <<>>

\* the input rows of table df that survive dropna, in order
KeptRows(df) ==
    LET c_time == pick_col(df.columns, ALIASES.time)
    IN  SelectSeq2([r \in 1..Len(df.rows) |-> r],
                   {r \in 1..Len(df.rows) : IsTime(df.rows[r][ColIdx(df, c_time)])})

\* a cell that holds the sentinel -1
IsSentinel(v) == to_numeric(v) = Val(-1)

\* labels of the per-detector columns holding the sentinel on row r
SentinelLabels(df, r) ==
    SelectSeq2([d \in 1..Len(DetectorCols) |-> DetectorCols[d][1]],
               {d \in 1..Len(DetectorCols) :
                    /\ HasCol(df, DetectorCols[d][2])
                    /\ IsSentinel(df.rows[r][ColIdx(df, DetectorCols[d][2])])})

\* the table as it was before the loader added __source
Loaded(df) == SubSeq(df.columns, 1, Len(df.columns) - 1)

----------------------------------------------------------------------------
(* C6: pick_col *)

ExactAliases(columns, names) ==
    {k \in 1..Len(names) : \E i \in 1..Len(columns) : columns[i] = names[k]}

CiColumns(columns, names) ==
    {i \in 1..Len(columns) :
        \E k \in 1..Len(names) : lower(columns[i]) = lower(names[k])}

SubstrColumns(columns, names) ==
    {i \in 1..Len(columns) :
        \E k \in 1..Len(names) : contains(lower(names[k]), lower(columns[i]))}

\* C6 as claimed: pick_col returns the column equal to the earliest alias
\* that some column equals exactly, whenever there is one; only when no
\* alias matches exactly a column equal to an alias up to case; only when
\* that fails too a column containing an alias up to case; None iff none
\* of the three matches.
C6_StrictStrategyOrder ==
    Called("pick_col") =>
        LET cs == arg.columns
            ns == arg.names
            ex == ExactAliases(cs, ns)
        IN  IF ex # {}
            THEN ret[1] = ns[CHOOSE k \in ex : \A j \in ex : k <= j]
            ELSE IF CiColumns(cs, ns) # {}
            THEN \E i \in CiColumns(cs, ns) : ret[1] = cs[i]
            ELSE IF SubstrColumns(cs, ns) # {}
            THEN \E i \in SubstrColumns(cs, ns) : ret[1] = cs[i]
            ELSE ret[1] = None

----------------------------------------------------------------------------
(* C7: parse_flag_generic *)

\* the truthy tokens the claim names, with those of line 103
ClaimedTokens == tokens \cup {<<"1">>}

\* C7 as claimed: a value is flagged iff it is the number -1 or its
\* trimmed, lower-cased string form is a truthy token ("1" among them),
\* whether it arrives as a string, a number or a boolean.
C7_Original ==
    Called("parse_flag_generic") =>
        \A i \in 1..Len(arg) :
            ret[1][i] = ( \/ (arg[i].k \in {"num", "float"}
                                /\ to_numeric(arg[i]) = Val(-1))
                          \/ lower(strip(astype_str(arg[i]))) \in ClaimedTokens )


----------------------------------------------------------------------------
(* C5: coerce_time *)

\* C5 as claimed, for a configured INPUT_TZ: every row with an offset
\* becomes the instant that offset gives, every zone-less row is read as
\* wall-clock time in INPUT_TZ, whatever the other rows of the column are;
\* so a zone-less value shown in LOCAL_TZ = INPUT_TZ keeps its wall clock.
C5_PerRowTwoPath ==
    (Called("coerce_time") /\ cfg.INPUT_TZ # <<>>) =>
        /\ ~ret[1].raised
        /\ \A i \in 1..Len(arg) :
              /\ arg[i].k = "taware" => ret[1].v[i] = At(arg[i].n - arg[i].z)
              /\ arg[i].k = "tnaive" =>
                    /\ ret[1].v[i] = At(arg[i].n - cfg.INPUT_TZ[1])
                    /\ cfg.LOCAL_TZ = cfg.INPUT_TZ[1] =>
                          ret[1].v[i].t + cfg.LOCAL_TZ = arg[i].n
              /\ ~IsTime(arg[i]) => ret[1].v[i] = NaT

----------------------------------------------------------------------------
(* C2, C3, C4: to_canonical *)

\* row r carries no flag signal: no per-detector column holds the sentinel
\* and the generic flag column, if any, holds neither the sentinel nor a
\* truthy token
Quiet(df, r) ==
    /\ SentinelLabels(df, r) = <<>>
    /\ LET c_flag == pick_col(Loaded(df), ALIASES.flag)
       IN  c_flag # None =>
              /\ ~IsSentinel(df.rows[r][ColIdx(df, c_flag)])
              /\ lower(strip(astype_str(df.rows[r][ColIdx(df, c_flag)])))
                    \notin ClaimedTokens

\* C2 as claimed: a row without any flag signal gives a record that is not
\* anomalous and has no method, whatever other columns the table has.
C2_NoFalsePositives ==
    (Called("to_canonical") /\ ret[1].kind = "frame") =>
        \A k \in 1..Len(ret[1].rows) :
            Quiet(arg, KeptRows(arg)[k]) =>
                /\ ~ret[1].rows[k].flag
                /\ MethodList(ret[1].rows[k]) = <<>>

\* C3 as claimed: in a table without a method column, a record's methods
\* are exactly the labels of the per-detector columns that hold -1.
C3_MethodsAreSentinelLabels ==
    (Called("to_canonical") /\ ret[1].kind = "frame"
        /\ pick_col(Loaded(arg), ALIASES.method) = None) =>
        \A k \in 1..Len(ret[1].rows) :
            MethodList(ret[1].rows[k]) = SentinelLabels(arg, KeptRows(arg)[k])

\* C4 as claimed: no method name occurs twice in a record's methods.
C4_NoDuplicateMethods ==
    (Called("to_canonical") /\ ret[1].kind = "frame") =>
        \A k \in 1..Len(ret[1].rows) : NoRepeat(MethodList(ret[1].rows[k]))

----------------------------------------------------------------------------
(* C1, C8, C9, C10: main *)

\* the records a path contributes when a failing file contributes none
RecordsOf(p) ==
    IF LoadOne(p, cfg).kind = "frame" THEN LoadOne(p, cfg).rows ELSE <<>>

RECURSIVE FramesOf(_)
\* the non-empty frames of a list of paths, in order
FramesOf(ps) ==
    IF ps = <<>> THEN <<>>
    ELSE (IF RecordsOf(Head(ps)) # <<>> THEN <<RecordsOf(Head(ps))>> ELSE <<>>)
            \o FramesOf(Tail(ps))

\* the anomalous records of the canonical universe, in input order
Anomalous(ps) == SelectSeq(Flatten(FramesOf(ps)), IsFlagged)

Cities(rows) == {rows[i].city : i \in 1..Len(rows)}

Selected == pc \in {"render", "aborted"}

\* the index in rows of the record of city c with the greatest instant,
\* the last one in input order among those that share it
LatestIdx(rows, c) ==
    LET mine == {i \in 1..Len(rows) : rows[i].city = c}
        top  == {i \in mine : \A j \in mine :
                    NotAfter(rows[j].time_utc, rows[i].time_utc)}
    IN  CHOOSE i \in top : \A j \in top : j <= i

\* C1 as claimed: the selected set holds exactly one record per city with
\* an anomalous record; it has the greatest instant among the city's
\* anomalous records and, among those sharing that instant, it is the one
\* that comes last in input order.
C1_LatestPerCityLastWins ==
    Selected =>
        /\ Cities(latest) = Cities(big)
        /\ \A i, j \in 1..Len(latest) : latest[i].city = latest[j].city => i = j
        /\ \A i \in 1..Len(latest) :
              latest[i] = big[LatestIdx(big, latest[i].city)]

\* the table lines lines 276-282 make of the selected records
ReportRows ==
    IF latest = <<>> THEN <<>>
    ELSE [i \in 1..Len(latest) |-> RenderRow(latest[i], cfg)]

\* C8 as claimed: two anomalous records of one city at one instant from two
\* files give one report row for that city and instant, with the methods of
\* both records and both file identifiers in its source.
C8_SameInstantMerged ==
    Selected =>
        \A i, j \in 1..Len(big) :
            ( /\ i < j
              /\ big[i].city = big[j].city
              /\ big[i].time_utc = big[j].time_utc
              /\ big[i].source # big[j].source
              /\ big[LatestIdx(big, big[i].city)].time_utc = big[i].time_utc ) =>
            LET mine == {k \in 1..Len(ReportRows) :
                            ReportRows[k].city = big[i].city}
            IN  /\ Cardinality(mine) = 1
                /\ \A k \in mine :
                      /\ ReportRows[k].ts = fmt_local(big[i].time_utc, cfg)
                      /\ \A m \in 1..Len(MethodList(big[i])) :
                            \E q \in 1..Len(Split(ReportRows[k].meth)) :
                                Split(ReportRows[k].meth)[q] = MethodList(big[i])[m]
                      /\ \A m \in 1..Len(MethodList(big[j])) :
                            \E q \in 1..Len(Split(ReportRows[k].meth)) :
                                Split(ReportRows[k].meth)[q] = MethodList(big[j])[m]
                      /\ contains(big[i].source, ReportRows[k].src)
                      /\ contains(big[j].source, ReportRows[k].src)

\* C9 as claimed: a run over any list of input files ends normally; it
\* writes nothing when no anomalous record is selected and otherwise
\* writes the artifact exactly once, one table row per selected record.
C9_WriteIffSelected ==
    /\ writes <= 1
    /\ pc \in {"done", "crashed", "aborted"} =>
          LET sel == Cities(Anomalous(InputPaths(changed, scan)))
          IN  /\ pc = "done"
              /\ IF sel = {}
                 THEN writes = 0 /\ out_file = Absent
                 ELSE /\ writes = 1
                      /\ out_file.exists
                      /\ Len(out_file.rows) = Cardinality(sel)

\* C10 as claimed: a file that cannot be read or parsed, or whose table has
\* no city or time column, never aborts the run, and the frames collected
\* are those of the other files, as if it had not been listed.
C10_FailuresIsolated ==
    /\ pc # "crashed"
    /\ pc = "loop" => frames = FramesOf(SubSeq(paths, 1, idx - 1))

----------------------------------------------------------------------------
(* C14: main, the filter of line 248 before the selection *)

\* the canonical universe of the run: the records of every frame collected
\* by lines 232-239, as pd.concat lines them up
Universe == Flatten(frames)

\* C14: every record handed to the report (the records of latest, which
\* lines 276-282 turn into the report's rows one for one) is an anomalous
\* record of the universe, it is a latest one among the anomalous records
\* of its city even when the city has a later record that is not
\* anomalous, and a city without an anomalous record has no row.
C14_OnlyAnomalousReported ==
    Selected =>
        LET u == Universe
        IN  /\ \A k \in 1..Len(latest) :
                  \E i \in 1..Len(u) :
                      /\ u[i] = latest[k]
                      /\ u[i].flag
                      /\ \A j \in 1..Len(u) :
                            (u[j].city = latest[k].city /\ u[j].flag)
                                => NotAfter(u[j].time_utc, latest[k].time_utc)
            /\ Cities(latest) = {u[j].city : j \in {i \in 1..Len(u) : u[i].flag}}

\* a city is selected although its chronologically latest record is not
\* anomalous
C14_Witness ==
    /\ Selected
    /\ LET u == Universe
       IN  \E k \in 1..Len(latest), j \in 1..Len(u) :
              /\ u[j].city = latest[k].city
              /\ ~u[j].flag
              /\ ~NotAfter(u[j].time_utc, latest[k].time_utc)

----------------------------------------------------------------------------
(* C12: to_canonical, the method of a flagged record *)

\* C12 as claimed: a record that is anomalous carries at least one method
\* name, also when only the generic flag column fired and the method
\* column is absent or blank.
C12_FlaggedHasMethod ==
    (Called("to_canonical") /\ ret[1].kind = "frame") =>
        \A k \in 1..Len(ret[1].rows) :
            ret[1].rows[k].flag => MethodList(ret[1].rows[k]) # <<>>

----------------------------------------------------------------------------
(* C11, C13: to_canonical, the rows that become records *)

\* the input rows of df, in order, whose cells satisfy keep(city, time)
RowsWhere(df, keep(_, _)) ==
    SelectSeq2([r \in 1..Len(df.rows) |-> r],
               {r \in 1..Len(df.rows) : keep(df.rows[r][1], df.rows[r][2])})

\* record k of the result stems from input row r (the aqi cell holds r)
StemsFrom(rec, r) == rec.aqi = Val(r)

\* C11 as claimed: the records of a table are, in input order, exactly its
\* rows whose timestamp can be parsed; a row whose timestamp cannot be
\* parsed gives no record and takes no other row with it.
C11_OnlyUnparseableDropped ==
    Called("to_canonical") =>
        LET parseable(city, time) == IsTime(time)
            kept == RowsWhere(arg, parseable)
        IN  /\ ret[1].kind = "frame"
            /\ Len(ret[1].rows) = Len(kept)
            /\ \A k \in 1..Len(kept) : StemsFrom(ret[1].rows[k], kept[k])

\* a column whose parseable elements are numbers only, or timestamp texts
\* that all carry the same offset or all carry none
OneShape(series) ==
    /\ Cardinality(Shapes(series)) <= 1
    /\ \/ \A i \in 1..Len(series) : ~IsEpoch(series[i])
       \/ \A i \in 1..Len(series) : ~IsStamp(series[i])

\* C13 as claimed, on tables whose timestamps are of one shape: the
\* records are, in input order, exactly the rows that have a non-empty
\* city and a parseable timestamp, and every record's city is non-empty.
C13_CityNeverEmpty ==
    (Called("to_canonical") /\ OneShape(Col(arg, s_timestamp))) =>
        LET complete(city, time) == IsTime(time) /\ city.k = "str" /\ city.s # <<>>
            kept == RowsWhere(arg, complete)
        IN  /\ ret[1].kind = "frame"
            /\ Len(ret[1].rows) = Len(kept)
            /\ \A k \in 1..Len(kept) :
                  /\ StemsFrom(ret[1].rows[k], kept[k])
                  /\ ret[1].rows[k].city # <<>>

----------------------------------------------------------------------------
(* C15: save_to_csv, the monthly files *)

\* the save_to_csv calls made for city c while the clock showed month n
CallsFor(c, n) ==
    LET Mine(call) == call.city = c /\ call.at = n
    IN  SelectSeq(saved, Mine)

\* the calls among them that returned
Returned(calls) ==
    LET Ok(call) == call.how = "returned"
    IN  SelectSeq(calls, Ok)

RECURSIVE RowsOf(_)
\* the row lines of a sequence of calls, in call order
RowsOf(calls) ==
    IF calls = <<>> THEN <<>>
    ELSE csv_line(csv_row(Head(calls).data)) \o RowsOf(Tail(calls))

\* C15 as claimed, counting the calls that returned: for every city and
\* month the monthly file is absent as long as save_to_csv was not called
\* for them, and once a call for them has returned the file is the header
\* line followed by one row line per returned call, in call order.
C15_Original ==
    (fn = "none" /\ pc = "idle") =>
        \A i \in 1..Len(CITIES), n \in Months :
            LET calls == CallsFor(CITIES[i].name, n)
                file  == disk[filepath(CITIES[i].name, n)]
            IN  /\ calls = <<>> => file = NoFile
                /\ Returned(calls) # <<>> =>
                      file = File(csv_line(headers) \o RowsOf(Returned(calls)))

====
